---- MODULE Spec2Model ----
(***************************************************************************)
(* A model of setup_bert.py: the SQuAD example reader, the feature         *)
(* converter (sliding window, max-context attribution, training labels)    *)
(* and the dataset materializer.                                           *)
(*                                                                         *)
(* Python lists are TLA+ sequences: the Python index i is the TLA+ index   *)
(* i + 1.  Python's None is the empty tuple, a present value v is <<v>>.   *)
(***************************************************************************)
EXTENDS Integers, Sequences, FiniteSets, TLC

(* ---------------------------- bounds ---------------------------------- *)
\* words in one document
MaxWords == 2
\* largest max_seq_length tried
MaxSeqLength == 6
\* largest doc_stride tried
MaxStride == 2
\* largest max_query_length tried
MaxQueryLength == 2
\* examples in one call of convert_examples_to_features
MaxExamples == 2
\* spans the sliding window may append before the model stops following it
SpanCap == 6
\* characters in one paragraph's context
MaxContext == 3
\* characters in one answer text
MaxAnswer == 2
\* questions of one paragraph
MaxQas == 1
\* spans in a span list handed to _check_is_max_context directly
MaxCtxSpans == 2
\* largest start and largest length of such a span
MaxCtxExtent == 3

(* ------------------------ program constants --------------------------- *)
\* unique_id = 1000000000
UniqueIdBase == 1000000000
\* the score is min(left, right) + 0.01 * length; the model keeps it times 100
ScoreScale == 100
\* the -3 of max_tokens_for_doc: [CLS], [SEP] and [SEP]
SpecialTokens == 3
\* CONTEXT_SEGMENT = 1
CONTEXT_SEGMENT == 1

None == << >>
Some(v) == <<v>>
Min(a, b) == IF a < b THEN a ELSE b

(* ------------------------ Python list access -------------------------- *)
\* seq[i] raises IndexError unless -len <= i < len
PyValid(seq, i) == -Len(seq) <= i /\ i < Len(seq)
\* seq[i]: a negative index counts from the end
PyGet(seq, i) == IF i >= 0 THEN seq[i + 1] ELSE seq[Len(seq) + i + 1]
\* the bound of a slice, as Python normalises it
PyClamp(n, i) == IF i < 0 THEN (IF n + i < 0 THEN 0 ELSE n + i)
                          ELSE (IF i > n THEN n ELSE i)
\* seq[lo:hi]
PySlice(seq, lo, hi) == SubSeq(seq, PyClamp(Len(seq), lo) + 1, PyClamp(Len(seq), hi))

(* --------------------------- the tokenizer ---------------------------- *)
\* The WordPiece tokenizer is an external collaborator.  Its stand-in knows
\* three words: one that is a single piece, one that splits into two pieces,
\* and one that cleans to nothing (a word of characters the tokenizer drops,
\* which the reader's is_whitespace does not split on).
Words == {"a", "ab", "nbsp"}
TokenizeWord(w) ==
  CASE w = "a" -> <<"a">>
    [] w = "ab" -> <<"a", "##b">>
    [] OTHER -> << >>

RECURSIVE Tokenize(_)
\* tokenizer.tokenize(text), text given as its whitespace-separated words
Tokenize(text) ==
  IF text = << >> THEN << >>
  ELSE TokenizeWord(Head(text)) \o Tokenize(Tail(text))

\* tokenizer.convert_tokens_to_ids: one id per token
VocabId(tok) ==
  CASE tok = "[CLS]" -> 101
    [] tok = "[SEP]" -> 102
    [] tok = "a" -> 1037
    [] OTHER -> 2497
ConvertTokensToIds(tokens) == [i \in 1..Len(tokens) |-> VocabId(tokens[i])]

(* ------------------- per-example document tokenisation ---------------- *)
RECURSIVE AllDocTokens(_)
\* all_doc_tokens: the pieces of every word, in order
AllDocTokens(doc_tokens) ==
  IF doc_tokens = << >> THEN << >>
  ELSE TokenizeWord(Head(doc_tokens)) \o AllDocTokens(Tail(doc_tokens))

\* orig_to_tok_index: for each word, the number of pieces before it
OrigToTokIndex(doc_tokens) ==
  [i \in 1..Len(doc_tokens) |-> Len(AllDocTokens(SubSeq(doc_tokens, 1, i - 1)))]

RECURSIVE TokToOrigIndex(_, _)
\* tok_to_orig_index: for each piece, the (Python) index of its word;
\* i is the index of the first word of doc_tokens
TokToOrigIndex(doc_tokens, i) ==
  IF doc_tokens = << >> THEN << >>
  ELSE [k \in 1..Len(TokenizeWord(Head(doc_tokens))) |-> i]
         \o TokToOrigIndex(Tail(doc_tokens), i + 1)

\* query_tokens, truncated to max_query_length
QueryTokens(question_text, mql) ==
  LET q == Tokenize(question_text)
  IN IF Len(q) > mql THEN PySlice(q, 0, mql) ELSE q

(* ------------------------- _improve_answer_span ------------------------ *)
\* " ".join(x) == " ".join(y): the pieces are non-empty and hold no space, so
\* the joined texts are equal exactly when the piece lists are
JoinedEqual(x, y) == x = y

RECURSIVE ImproveInner(_, _, _, _)
\* for new_end in range(input_end, new_start - 1, -1)
ImproveInner(doc, new_start, new_end, tok_answer) ==
  IF new_end < new_start THEN None
  ELSE IF JoinedEqual(PySlice(doc, new_start, new_end + 1), tok_answer)
       THEN Some(<<new_start, new_end>>)
       ELSE ImproveInner(doc, new_start, new_end - 1, tok_answer)

RECURSIVE ImproveOuter(_, _, _, _, _)
\* for new_start in range(input_start, input_end + 1)
ImproveOuter(doc, new_start, input_start, input_end, tok_answer) ==
  IF new_start > input_end THEN <<input_start, input_end>>
  ELSE LET r == ImproveInner(doc, new_start, input_end, tok_answer)
       IN IF r # None THEN r[1]
          ELSE ImproveOuter(doc, new_start + 1, input_start, input_end, tok_answer)

ImproveAnswerSpan(doc, input_start, input_end, orig_answer_text) ==
  ImproveOuter(doc, input_start, input_start, input_end, Tokenize(orig_answer_text))

(* ------------------------- _check_is_max_context ----------------------- *)
\* doc_span.start + doc_span.length - 1
SpanEnd(doc_span) == doc_span.start + doc_span.length - 1
\* position lies in the span (neither `continue` is taken)
Contains(doc_span, position) ==
  ~(position < doc_span.start) /\ ~(position > SpanEnd(doc_span))
\* min(num_left_context, num_right_context) + 0.01 * length, times ScoreScale
Score(doc_span, position) ==
  ScoreScale * Min(position - doc_span.start, SpanEnd(doc_span) - position)
    + doc_span.length

\* a faulty variant of IsBetter: a later span of equal score replaces the best one
IsBetterOrEqual(score, best_score) == best_score = None \/ score >= best_score[1]
\* best_score is None or score > best_score
IsBetter(score, best_score) == best_score = None \/ score > best_score[1]

RECURSIVE BestSpanIndex(_, _, _, _, _)
\* the loop over enumerate(doc_spans): best_span_index when it ends
\* (span_index is the Python index of the next span to look at)
BestSpanIndex(doc_spans, span_index, position, best_score, best_span_index) ==
  IF span_index >= Len(doc_spans) THEN best_span_index
  ELSE LET doc_span == doc_spans[span_index + 1]
       IN IF ~Contains(doc_span, position)
          THEN BestSpanIndex(doc_spans, span_index + 1, position,
                             best_score, best_span_index)
          ELSE IF IsBetter(Score(doc_span, position), best_score)
               THEN BestSpanIndex(doc_spans, span_index + 1, position,
                                  Some(Score(doc_span, position)), Some(span_index))
               ELSE BestSpanIndex(doc_spans, span_index + 1, position,
                                  best_score, best_span_index)

\* a faulty variant of CheckIsMaxContext: true for every containing span whose score is
\* the best one, not only for the span the loop kept
CheckIsMaxContextAnyBest(doc_spans, cur_span_index, position) ==
  LET best == BestSpanIndex(doc_spans, 0, position, None, None)
  IN /\ best # None
     /\ cur_span_index \in 0..(Len(doc_spans) - 1)
     /\ Contains(doc_spans[cur_span_index + 1], position)
     /\ Score(doc_spans[cur_span_index + 1], position)
          = Score(doc_spans[best[1] + 1], position)
\* return cur_span_index == best_span_index
CheckIsMaxContext(doc_spans, cur_span_index, position) ==
  Some(cur_span_index) = BestSpanIndex(doc_spans, 0, position, None, None)

(* --------------------------- sliding window ---------------------------- *)
\* a faulty variant of MaxTokensForDoc: one special token forgotten
MaxTokensForDocTwo(max_seq_len, query_tokens) ==
  max_seq_len - Len(query_tokens) - (SpecialTokens - 1)
\* max_tokens_for_doc = max_seq_length - len(query_tokens) - 3
MaxTokensForDoc(max_seq_len, query_tokens) ==
  max_seq_len - Len(query_tokens) - SpecialTokens

\* a faulty variant of WhileCondition: the last piece is never a start
WhileConditionShort(offset, n) == offset < n - 1
\* while start_offset < len(all_doc_tokens)
WhileCondition(offset, n) == offset < n

\* length = len(all_doc_tokens) - start_offset, cut to max_tokens_for_doc
SpanLength(n, offset, max_tokens) ==
  IF n - offset > max_tokens THEN max_tokens ELSE n - offset

\* a faulty variant of NextOffset: the stride is not cut to the span's length
NextOffsetUncut(offset, length, stride) == offset + stride
\* a faulty variant of NextOffset: the window moves one piece at a time
NextOffsetByOne(offset, length, stride) == offset + Min(length, 1)
\* start_offset += min(length, doc_stride)
NextOffset(offset, length, stride) == offset + Min(length, stride)

(* ------------------------- building one feature ------------------------ *)
\* [CLS] query [SEP] span [SEP]
FeatureTokens(query, all_doc, doc_span) ==
  <<"[CLS]">> \o query \o <<"[SEP]">>
    \o [i \in 1..doc_span.length |-> PyGet(all_doc, doc_span.start + i - 1)]
    \o <<"[SEP]">>

\* segment_ids before padding: 0 up to the first [SEP], 1 from there on
FeatureSegments(query, doc_span) ==
  [i \in 1..(Len(query) + 2) |-> 0] \o [i \in 1..(doc_span.length + 1) |-> 1]

\* while len(input_ids) < max_seq_length: append(0)
ZeroPad(seq, max_seq_len) ==
  seq \o [i \in 1..(max_seq_len - Len(seq)) |-> 0]

\* the positions of tokens that hold the span's pieces (Python indices)
ContextPositions(query, doc_span) ==
  (Len(query) + 2)..(Len(query) + 1 + doc_span.length)

\* token_to_orig_map[len(tokens)] = tok_to_orig_index[split_token_index]
TokenToOrigMap(query, tok_to_orig, doc_span) ==
  [p \in ContextPositions(query, doc_span) |->
     PyGet(tok_to_orig, doc_span.start + p - (Len(query) + 2))]

\* token_is_max_context[len(tokens)] = _check_is_max_context(...)
TokenIsMaxContext(query, spans, span_index) ==
  [p \in ContextPositions(query, spans[span_index + 1]) |->
     CheckIsMaxContext(spans, span_index,
                       spans[span_index + 1].start + p - (Len(query) + 2))]

\* a faulty variant of Labels: the answer is placed without the query offset
LabelsNoOffset(training, example, tok_start, tok_end, doc_span, query) ==
  IF training /\ example.is_impossible THEN <<Some(0), Some(0)>>
  ELSE IF training /\ ~example.is_impossible
       THEN IF ~(tok_start[1] >= doc_span.start /\ tok_end[1] <= SpanEnd(doc_span))
            THEN <<Some(0), Some(0)>>
            ELSE <<Some(tok_start[1] - doc_span.start),
                   Some(tok_end[1] - doc_span.start)>>
       ELSE <<None, None>>
\* start_position and end_position of the feature
Labels(training, example, tok_start, tok_end, doc_span, query) ==
  IF training /\ example.is_impossible THEN <<Some(0), Some(0)>>
  ELSE IF training /\ ~example.is_impossible
       THEN IF ~(tok_start[1] >= doc_span.start /\ tok_end[1] <= SpanEnd(doc_span))
            THEN <<Some(0), Some(0)>>
            ELSE <<Some(tok_start[1] - doc_span.start + Len(query) + 2),
                   Some(tok_end[1] - doc_span.start + Len(query) + 2)>>
       ELSE <<None, None>>

\* a faulty variant of NextUniqueId: the counter stands still
NextUniqueIdStuck(uid) == uid
\* unique_id += 1
NextUniqueId(uid) == uid + 1

(* ------------------------------ the inputs ----------------------------- *)
RECURSIVE SeqsUpTo(_, _)
\* the sequences over S of length at most n
SeqsUpTo(S, n) ==
  IF n = 0 THEN {<< >>}
  ELSE LET shorter == SeqsUpTo(S, n - 1)
       IN shorter \cup {Append(t, x) : t \in shorter, x \in S}

Documents == SeqsUpTo(Words, MaxWords)
\* one short question and one longer than any max_query_length tried
Questions == {<<"a">>, [i \in 1..(MaxQueryLength + 1) |-> "a"]}
\* answer texts, as their whitespace-separated words
AnswerTexts == {<< >>, <<"a">>, <<"ab">>}

\* what read_squad_examples hands over outside training
EvalExamples ==
  {[question_text |-> q, doc_tokens |-> d, orig_answer_text |-> None,
    start_position |-> None, end_position |-> None, is_impossible |-> FALSE] :
     q \in Questions, d \in Documents}
\* ... in training, for a question marked impossible
ImpossibleExamples ==
  {[question_text |-> q, doc_tokens |-> d, orig_answer_text |-> Some(<< >>),
    start_position |-> Some(-1), end_position |-> Some(-1), is_impossible |-> TRUE] :
     q \in Questions, d \in Documents}
\* ... in training, for a question with an answer: the positions are entries of
\* char_to_word_offset, which holds -1 before the first word
PositionPairs(d) ==
  {p \in (-1..(Len(d) - 1)) \X (-1..(Len(d) - 1)) : p[1] <= p[2] + 1}
AnswerExamples ==
  UNION {{[question_text |-> q, doc_tokens |-> d, orig_answer_text |-> Some(a),
           start_position |-> Some(p[1]), end_position |-> Some(p[2]),
           is_impossible |-> FALSE] :
            q \in Questions, a \in AnswerTexts, p \in PositionPairs(d)} :
         d \in Documents}

Examples(training) ==
  IF training THEN ImpossibleExamples \cup AnswerExamples ELSE EvalExamples
\* the examples of the calls with more than one example: documents of
\* two-piece words, the answer (when there is one) in the first word
RunExamples(training) ==
  {x \in Examples(training) :
     /\ x.question_text = <<"a">>
     /\ \A i \in 1..Len(x.doc_tokens) : x.doc_tokens[i] = "ab"
     /\ \/ ~training
        \/ x.is_impossible
        \/ /\ x.start_position = Some(0)
           /\ x.end_position = Some(0)
           /\ x.orig_answer_text = Some(<<"a">>)}

RECURSIVE ListsOf(_, _)
\* the lists over S of length exactly n
ListsOf(S, n) ==
  IF n = 0 THEN {<< >>}
  ELSE {Append(t, x) : t \in ListsOf(S, n - 1), x \in S}

ExampleLists(training) ==
  {<< >>} \cup {<<x>> : x \in Examples(training)}
    \cup UNION {ListsOf(RunExamples(training), n) : n \in 2..MaxExamples}

(* ------------------------------ process_set ---------------------------- *)
\* the names process_set has bound when its loop over the features starts:
\* its parameters and the locals assigned so far
ProcessSetLocals ==
  {"args", "name", "examples", "tokenizer", "is_training", "out_file",
   "features", "para_limit", "ques_limit", "ans_limit", "char_limit",
   "QUESTION_SEGMENT", "CONTEXT_SEGMENT",
   "context_idxs", "ques_idxs", "y1s", "y2s", "ids"}
\* the names of the module: imports, classes, functions, and what the main
\* block assigns
ModuleGlobals ==
  {"np", "args", "collections", "logging", "json", "BertTokenizer",
   "whitespace_tokenize", "logger", "SquadExample", "InputFeatures",
   "_improve_answer_span", "_check_is_max_context",
   "convert_examples_to_features", "read_squad_examples", "process_set",
   "args_", "tokenizer", "train_examples", "dev_examples", "test_examples"}
\* reading a name that is bound nowhere raises NameError
NameBound(n) == n \in ProcessSetLocals \cup ModuleGlobals

\* feature.segment_ids.index(CONTEXT_SEGMENT), a Python index
ContextOffset(segment_ids) ==
  (CHOOSE i \in 1..Len(segment_ids) :
     /\ segment_ids[i] = CONTEXT_SEGMENT
     /\ \A j \in 1..(i - 1) : segment_ids[j] # CONTEXT_SEGMENT) - 1

\* the exception the loop body raises for one feature, or "ok"
RowFailure(feature, ques_limit) ==
  IF ~(\E i \in 1..Len(feature.segment_ids) :
         feature.segment_ids[i] = CONTEXT_SEGMENT)
  THEN "ValueError"
  ELSE IF feature.start_position = None \/ feature.end_position = None
  THEN "TypeError"
  ELSE IF ContextOffset(feature.segment_ids) > ques_limit
  THEN "IndexError"
  ELSE IF ~NameBound("context_char_idxs") \/ ~NameBound("ques_char_idxs")
  THEN "NameError"
  ELSE "ok"

\* what process_set leaves behind: the exception it raised, or the arrays it
\* handed to np.savez
ProcessSetOutcome(feats, ques_limit) ==
  IF ~NameBound("train_features")
  THEN [error |-> "NameError", arrays |-> None]
  ELSE IF \E k \in 1..Len(feats) : RowFailure(feats[k], ques_limit) # "ok"
  THEN LET k == CHOOSE i \in 1..Len(feats) :
                  /\ RowFailure(feats[i], ques_limit) # "ok"
                  /\ \A j \in 1..(i - 1) : RowFailure(feats[j], ques_limit) = "ok"
       IN [error |-> RowFailure(feats[k], ques_limit), arrays |-> None]
  ELSE [error |-> "none",
        arrays |-> Some(
          [ids |-> [k \in 1..Len(feats) |-> feats[k].unique_id],
           y1s |-> [k \in 1..Len(feats) |->
                      feats[k].start_position[1] - ContextOffset(feats[k].segment_ids)],
           y2s |-> [k \in 1..Len(feats) |->
                      feats[k].end_position[1] - ContextOffset(feats[k].segment_ids)]])]

(* --------------------------- read_squad_examples ----------------------- *)
\* In the reader's model a text is the list of its characters, and a word of
\* doc_tokens is the list of the characters it is made of.
Chars == {" ", "a", "b"}
\* is_whitespace(c); "NNBSP" stands for the character 0x202F
IsWhitespace(c) == c \in {" ", "\t", "\r", "\n", "NNBSP"}

\* one turn of the loop over paragraph_text: the new
\* (doc_tokens, char_to_word_offset, prev_is_whitespace)
ScanOne(c, toks, offsets, prev_ws) ==
  LET toks2 == IF IsWhitespace(c) THEN toks
               ELSE IF prev_ws THEN Append(toks, <<c>>)
               ELSE [toks EXCEPT ![Len(toks)] = Append(@, c)]
  IN [doc_tokens |-> toks2,
      char_to_word_offset |-> Append(offsets, Len(toks2) - 1),
      prev_is_whitespace |-> IsWhitespace(c)]

RECURSIVE SplitWhitespace(_, _, _)
\* whitespace_tokenize(text): text.strip().split(); acc holds the finished
\* words, cur the word being read
SplitWhitespace(text, cur, acc) ==
  IF text = << >> THEN (IF cur = << >> THEN acc ELSE Append(acc, cur))
  ELSE IF IsWhitespace(Head(text))
       THEN SplitWhitespace(Tail(text), << >>,
                            IF cur = << >> THEN acc ELSE Append(acc, cur))
       ELSE SplitWhitespace(Tail(text), Append(cur, Head(text)), acc)
WhitespaceTokenize(text) == SplitWhitespace(text, << >>, << >>)

RECURSIVE JoinWords(_)
\* " ".join(words)
JoinWords(words) ==
  IF words = << >> THEN << >>
  ELSE IF Len(words) = 1 THEN words[1]
  ELSE words[1] \o <<" ">> \o JoinWords(Tail(words))

\* text.find(sub): the lowest index where sub starts, or -1
Find(text, sub) ==
  LET hits == {i \in 0..(Len(text) - Len(sub)) :
                 SubSeq(text, i + 1, i + Len(sub)) = sub}
  IN IF hits = {} THEN -1
     ELSE CHOOSE i \in hits : \A j \in hits : i <= j

\* what the reader does with one question: "ValueError", "IndexError" (an
\* exception leaves the reader), "skip" (the `continue`), or "append"
QaOutcome(training, qa, toks, offsets) ==
  IF ~training THEN "append"
  ELSE IF Len(qa.answers) # 1 /\ ~qa.is_impossible THEN "ValueError"
  ELSE IF qa.is_impossible THEN "append"
  ELSE LET answer == qa.answers[1]
           last == answer.answer_start + Len(answer.text) - 1
       IN IF ~PyValid(offsets, answer.answer_start) \/ ~PyValid(offsets, last)
          THEN "IndexError"
          ELSE LET s == PyGet(offsets, answer.answer_start)
                   e == PyGet(offsets, last)
                   actual_text == JoinWords(PySlice(toks, s, e + 1))
                   cleaned_answer_text == JoinWords(WhitespaceTokenize(answer.text))
               IN IF Find(actual_text, cleaned_answer_text) = -1
                  THEN "skip" ELSE "append"

\* the SquadExample the reader appends for the question
QaExample(training, qa, toks, offsets) ==
  IF ~training
  THEN [question_text |-> qa.question, doc_tokens |-> toks,
        orig_answer_text |-> None, start_position |-> None,
        end_position |-> None, is_impossible |-> FALSE]
  ELSE IF qa.is_impossible
  THEN [question_text |-> qa.question, doc_tokens |-> toks,
        orig_answer_text |-> Some(<< >>), start_position |-> Some(-1),
        end_position |-> Some(-1), is_impossible |-> TRUE]
  ELSE LET answer == qa.answers[1]
       IN [question_text |-> qa.question, doc_tokens |-> toks,
           orig_answer_text |-> Some(answer.text),
           start_position |-> Some(PyGet(offsets, answer.answer_start)),
           end_position |->
             Some(PyGet(offsets, answer.answer_start + Len(answer.text) - 1)),
           is_impossible |-> FALSE]

\* the answers a question may carry for a context of n characters
Answers(n) ==
  {[text |-> t, answer_start |-> o] :
     t \in SeqsUpTo(Chars, MaxAnswer), o \in 0..n}
\* the questions of a paragraph whose context has n characters
Qas(n) ==
  {[question |-> <<"a">>, answers |-> <<a>>, is_impossible |-> FALSE] :
     a \in Answers(n)}
  \cup {[question |-> <<"a">>, answers |-> << >>, is_impossible |-> i] :
          i \in BOOLEAN}

(* ------------------------------- the state ----------------------------- *)
VARIABLES
  \* the arguments of convert_examples_to_features
  examples, max_seq_length, doc_stride, max_query_length, is_training,
  \* where the run is: "example" (top of the loop over examples), "window"
  \* (the while loop), "spans" (the loop over doc_spans), "returned",
  \* "failed" (an exception left the converter), "saved", "ps_failed"
  pc,
  \* the exception that ended the run, "none" while there is none
  error,
  \* the locals of convert_examples_to_features
  unique_id, features, example_index, query_tokens, all_doc_tokens,
  tok_to_orig_index, orig_to_tok_index, tok_start_position, tok_end_position,
  max_tokens_for_doc, doc_spans, start_offset, doc_span_index,
  \* what np.savez was given: None until process_set saves
  archive,
  \* read_squad_examples: its is_training argument, where it is ("scan": the
  \* loop over paragraph_text, "qas": the loop over the questions, "done",
  \* "failed"), the exception that ended it, the paragraph's context, the
  \* locals of the scan, the questions handled so far and the examples
  rd_is_training, rd_pc, rd_error, paragraph_text, doc_tokens,
  char_to_word_offset, prev_is_whitespace, qas_done, read_examples,
  \* a direct call of _check_is_max_context: its arguments and its result
  \* (None before the call)
  ctx_doc_spans, ctx_cur_span_index, ctx_position, ctx_result

vars ==
  <<examples, max_seq_length, doc_stride, max_query_length, is_training, pc,
    error, unique_id, features, example_index, query_tokens, all_doc_tokens,
    tok_to_orig_index, orig_to_tok_index, tok_start_position, tok_end_position,
    max_tokens_for_doc, doc_spans, start_offset, doc_span_index, archive,
    rd_is_training, rd_pc, rd_error, paragraph_text, doc_tokens,
    char_to_word_offset, prev_is_whitespace, qas_done, read_examples,
    ctx_doc_spans, ctx_cur_span_index, ctx_position, ctx_result>>

read_vars ==
  <<rd_is_training, rd_pc, rd_error, paragraph_text, doc_tokens,
    char_to_word_offset, prev_is_whitespace, qas_done, read_examples>>
ctx_vars == <<ctx_doc_spans, ctx_cur_span_index, ctx_position, ctx_result>>
convert_vars ==
  <<examples, max_seq_length, doc_stride, max_query_length, is_training, pc,
    error, unique_id, features, example_index, query_tokens, all_doc_tokens,
    tok_to_orig_index, orig_to_tok_index, tok_start_position, tok_end_position,
    max_tokens_for_doc, doc_spans, start_offset, doc_span_index, archive>>

inputs == <<examples, max_seq_length, doc_stride, max_query_length, is_training>>
example_locals ==
  <<query_tokens, all_doc_tokens, tok_to_orig_index, orig_to_tok_index,
    tok_start_position, tok_end_position, max_tokens_for_doc>>

\* the example the loop is at
Example == examples[example_index + 1]

\* the locals of the converter before its first example
ConvertLocalsInit ==
  /\ error = "none"
  /\ unique_id = UniqueIdBase
  /\ features = << >>
  /\ example_index = 0
  /\ query_tokens = << >>
  /\ all_doc_tokens = << >>
  /\ tok_to_orig_index = << >>
  /\ orig_to_tok_index = << >>
  /\ tok_start_position = None
  /\ tok_end_position = None
  /\ max_tokens_for_doc = 0
  /\ doc_spans = << >>
  /\ start_offset = 0
  /\ doc_span_index = 0
  /\ archive = None

\* process_set is called
ConvertInit ==
  /\ is_training \in BOOLEAN
  /\ examples \in ExampleLists(is_training)
  /\ max_seq_length \in (SpecialTokens + 2)..MaxSeqLength
  /\ doc_stride \in 1..MaxStride
  /\ max_query_length \in 1..MaxQueryLength
  /\ pc = "example"
  /\ ConvertLocalsInit

\* process_set is not called
ConvertIdle ==
  /\ is_training = FALSE
  /\ examples = << >>
  /\ max_seq_length = 0
  /\ doc_stride = 0
  /\ max_query_length = 0
  /\ pc = "idle"
  /\ ConvertLocalsInit

\* the locals of the reader before a paragraph
ReadLocalsInit ==
  /\ rd_error = "none"
  /\ doc_tokens = << >>
  /\ char_to_word_offset = << >>
  /\ prev_is_whitespace = TRUE
  /\ qas_done = 0
  /\ read_examples = << >>

\* read_squad_examples is called on a file of one paragraph
ReadInit ==
  /\ rd_is_training \in BOOLEAN
  /\ paragraph_text \in SeqsUpTo(Chars, MaxContext)
  /\ rd_pc = "scan"
  /\ ReadLocalsInit

\* read_squad_examples is not called
ReadIdle ==
  /\ rd_is_training = FALSE
  /\ paragraph_text = << >>
  /\ rd_pc = "idle"
  /\ ReadLocalsInit

\* the span lists _check_is_max_context may be handed
CtxSpans ==
  {[start |-> s, length |-> l] : s \in 0..MaxCtxExtent, l \in 1..MaxCtxExtent}
CtxInit ==
  /\ ctx_doc_spans \in SeqsUpTo(CtxSpans, MaxCtxSpans)
  /\ ctx_cur_span_index = 0
  /\ ctx_position = 0
  /\ ctx_result = None

\* _check_is_max_context is not called directly
CtxIdle ==
  /\ ctx_doc_spans = << >>
  /\ ctx_cur_span_index = 0
  /\ ctx_position = 0
  /\ ctx_result = None

Init == ConvertInit /\ ReadIdle /\ CtxIdle

\* the answer's first and last piece before _improve_answer_span
InputStart(example, orig_to_tok) == PyGet(orig_to_tok, example.start_position[1])
InputEnd(example, orig_to_tok, all_doc) ==
  IF example.end_position[1] < Len(example.doc_tokens) - 1
  THEN PyGet(orig_to_tok, example.end_position[1] + 1) - 1
  ELSE Len(all_doc) - 1

\* the top of the loop over the examples, down to the start of the while loop
BeginExample ==
  /\ pc = "example"
  /\ example_index < Len(examples)
  /\ LET example == Example
         all_doc == AllDocTokens(example.doc_tokens)
         orig_to_tok == OrigToTokIndex(example.doc_tokens)
         query == QueryTokens(example.question_text, max_query_length)
     IN /\ query_tokens' = query
        /\ all_doc_tokens' = all_doc
        /\ tok_to_orig_index' = TokToOrigIndex(example.doc_tokens, 0)
        /\ orig_to_tok_index' = orig_to_tok
        /\ IF is_training /\ ~example.is_impossible
             /\ ~PyValid(orig_to_tok, example.start_position[1])
           THEN \* orig_to_tok_index[example.start_position] raises
                /\ pc' = "failed"
                /\ error' = "IndexError"
                /\ UNCHANGED <<tok_start_position, tok_end_position,
                               max_tokens_for_doc, doc_spans, start_offset>>
           ELSE /\ IF is_training /\ example.is_impossible
                   THEN /\ tok_start_position' = Some(-1)
                        /\ tok_end_position' = Some(-1)
                   ELSE IF is_training /\ ~example.is_impossible
                   THEN LET improved ==
                              ImproveAnswerSpan(all_doc,
                                InputStart(example, orig_to_tok),
                                InputEnd(example, orig_to_tok, all_doc),
                                example.orig_answer_text[1])
                        IN /\ tok_start_position' = Some(improved[1])
                           /\ tok_end_position' = Some(improved[2])
                   ELSE /\ tok_start_position' = None
                        /\ tok_end_position' = None
                /\ max_tokens_for_doc' = MaxTokensForDoc(max_seq_length, query)
                /\ doc_spans' = << >>
                /\ start_offset' = 0
                /\ pc' = "window"
                /\ error' = error
  /\ UNCHANGED <<read_vars, ctx_vars>>
  /\ UNCHANGED <<inputs, unique_id, features, example_index, doc_span_index,
                 archive>>

\* one turn of the while loop
WindowStep ==
  /\ pc = "window"
  /\ WhileCondition(start_offset, Len(all_doc_tokens))
  /\ Len(doc_spans) < SpanCap
  /\ LET length == SpanLength(Len(all_doc_tokens), start_offset, max_tokens_for_doc)
     IN /\ doc_spans' = Append(doc_spans, [start |-> start_offset, length |-> length])
        /\ IF start_offset + length = Len(all_doc_tokens)
           THEN /\ pc' = "spans"
                /\ start_offset' = start_offset
           ELSE /\ pc' = "window"
                /\ start_offset' = NextOffset(start_offset, length, doc_stride)
  /\ doc_span_index' = 0
  /\ UNCHANGED <<read_vars, ctx_vars>>
  /\ UNCHANGED <<inputs, error, unique_id, features, example_index,
                 example_locals, archive>>

\* the while condition is false
WindowExit ==
  /\ pc = "window"
  /\ ~WhileCondition(start_offset, Len(all_doc_tokens))
  /\ pc' = "spans"
  /\ doc_span_index' = 0
  /\ UNCHANGED <<read_vars, ctx_vars>>
  /\ UNCHANGED <<inputs, error, unique_id, features, example_index,
                 example_locals, doc_spans, start_offset, archive>>

\* every all_doc_tokens[...] and tok_to_orig_index[...] of the span is in range
SpanIndexable(doc_span, all_doc) ==
  \A i \in 0..(doc_span.length - 1) : PyValid(all_doc, doc_span.start + i)

\* one turn of the loop over the doc_spans: one feature
EmitFeature ==
  /\ pc = "spans"
  /\ doc_span_index < Len(doc_spans)
  /\ LET doc_span == doc_spans[doc_span_index + 1]
         tokens == FeatureTokens(query_tokens, all_doc_tokens, doc_span)
         ids == ConvertTokensToIds(tokens)
         labels == Labels(is_training, Example, tok_start_position,
                          tok_end_position, doc_span, query_tokens)
     IN IF ~SpanIndexable(doc_span, all_doc_tokens)
        THEN /\ pc' = "failed"
             /\ error' = "IndexError"
             /\ UNCHANGED <<features, unique_id, doc_span_index>>
        ELSE IF Len(ZeroPad(ids, max_seq_length)) # max_seq_length
        THEN \* assert len(input_ids) == max_seq_length
             /\ pc' = "failed"
             /\ error' = "AssertionError"
             /\ UNCHANGED <<features, unique_id, doc_span_index>>
        ELSE /\ features' = Append(features,
                  [unique_id |-> unique_id,
                   example_index |-> example_index,
                   doc_span_index |-> doc_span_index,
                   tokens |-> tokens,
                   token_to_orig_map |->
                     TokenToOrigMap(query_tokens, tok_to_orig_index, doc_span),
                   token_is_max_context |->
                     TokenIsMaxContext(query_tokens, doc_spans, doc_span_index),
                   input_ids |-> ZeroPad(ids, max_seq_length),
                   input_mask |-> ZeroPad([i \in 1..Len(ids) |-> 1], max_seq_length),
                   segment_ids |->
                     ZeroPad(FeatureSegments(query_tokens, doc_span), max_seq_length),
                   start_position |-> labels[1],
                   end_position |-> labels[2],
                   is_impossible |-> Example.is_impossible])
             /\ unique_id' = NextUniqueId(unique_id)
             /\ doc_span_index' = doc_span_index + 1
             /\ UNCHANGED <<pc, error>>
  /\ UNCHANGED <<read_vars, ctx_vars>>
  /\ UNCHANGED <<inputs, example_index, example_locals, doc_spans, start_offset,
                 archive>>

\* the loop over the doc_spans is over: on to the next example
NextExample ==
  /\ pc = "spans"
  /\ doc_span_index = Len(doc_spans)
  /\ example_index' = example_index + 1
  /\ pc' = "example"
  /\ UNCHANGED <<read_vars, ctx_vars>>
  /\ UNCHANGED <<inputs, error, unique_id, features, example_locals, doc_spans,
                 start_offset, doc_span_index, archive>>

\* return features
Return ==
  /\ pc = "example"
  /\ example_index = Len(examples)
  /\ pc' = "returned"
  /\ UNCHANGED <<read_vars, ctx_vars>>
  /\ UNCHANGED <<inputs, error, unique_id, features, example_index,
                 example_locals, doc_spans, start_offset, doc_span_index, archive>>

\* the rest of process_set, from the loop over the features to np.savez
ProcessSet ==
  /\ pc = "returned"
  /\ LET out == ProcessSetOutcome(features, max_query_length)
     IN /\ error' = out.error
        /\ archive' = out.arrays
        /\ pc' = IF out.error = "none" THEN "saved" ELSE "ps_failed"
  /\ UNCHANGED <<read_vars, ctx_vars>>
  /\ UNCHANGED <<inputs, unique_id, features, example_index, example_locals,
                 doc_spans, start_offset, doc_span_index>>

Next ==
  \/ BeginExample
  \/ WindowStep
  \/ WindowExit
  \/ EmitFeature
  \/ NextExample
  \/ Return
  \/ ProcessSet

Spec == Init /\ [][Next]_vars

(* ----------------------- the reader, step by step ---------------------- *)
\* one turn of the loop over the characters of paragraph_text
ScanChar ==
  /\ rd_pc = "scan"
  /\ Len(char_to_word_offset) < Len(paragraph_text)
  /\ LET r == ScanOne(paragraph_text[Len(char_to_word_offset) + 1], doc_tokens,
                      char_to_word_offset, prev_is_whitespace)
     IN /\ doc_tokens' = r.doc_tokens
        /\ char_to_word_offset' = r.char_to_word_offset
        /\ prev_is_whitespace' = r.prev_is_whitespace
  /\ UNCHANGED <<rd_is_training, rd_pc, rd_error, paragraph_text, qas_done,
                 read_examples>>
  /\ UNCHANGED <<convert_vars, ctx_vars>>

\* the loop over the characters is over
ScanDone ==
  /\ rd_pc = "scan"
  /\ Len(char_to_word_offset) = Len(paragraph_text)
  /\ rd_pc' = "qas"
  /\ UNCHANGED <<rd_is_training, rd_error, paragraph_text, doc_tokens,
                 char_to_word_offset, prev_is_whitespace, qas_done, read_examples>>
  /\ UNCHANGED <<convert_vars, ctx_vars>>

\* one turn of the loop over the questions of the paragraph
ReadQa ==
  /\ rd_pc = "qas"
  /\ qas_done < MaxQas
  /\ \E qa \in Qas(Len(paragraph_text)) :
       LET outcome == QaOutcome(rd_is_training, qa, doc_tokens, char_to_word_offset)
       IN /\ qas_done' = qas_done + 1
          /\ IF outcome \in {"ValueError", "IndexError"}
             THEN /\ rd_pc' = "failed"
                  /\ rd_error' = outcome
                  /\ read_examples' = read_examples
             ELSE /\ rd_pc' = "qas"
                  /\ rd_error' = rd_error
                  /\ read_examples' =
                       IF outcome = "skip" THEN read_examples
                       ELSE Append(read_examples,
                              QaExample(rd_is_training, qa, doc_tokens,
                                        char_to_word_offset))
  /\ UNCHANGED <<rd_is_training, paragraph_text, doc_tokens, char_to_word_offset,
                 prev_is_whitespace>>
  /\ UNCHANGED <<convert_vars, ctx_vars>>

\* return examples
ReadReturn ==
  /\ rd_pc = "qas"
  /\ rd_pc' = "done"
  /\ UNCHANGED <<rd_is_training, rd_error, paragraph_text, doc_tokens,
                 char_to_word_offset, prev_is_whitespace, qas_done, read_examples>>
  /\ UNCHANGED <<convert_vars, ctx_vars>>

InitRead == ConvertIdle /\ ReadInit /\ CtxIdle
NextRead == ScanChar \/ ScanDone \/ ReadQa \/ ReadReturn
SpecRead == InitRead /\ [][NextRead]_vars

(* ------------------ _check_is_max_context, called directly ------------- *)
CallCheckIsMaxContext ==
  /\ ctx_result = None
  /\ \E cur \in 0..(Len(ctx_doc_spans) - 1), position \in 0..(2 * MaxCtxExtent) :
       /\ ctx_cur_span_index' = cur
       /\ ctx_position' = position
       /\ ctx_result' = Some(CheckIsMaxContext(ctx_doc_spans, cur, position))
  /\ UNCHANGED ctx_doc_spans
  /\ UNCHANGED <<convert_vars, read_vars>>

InitCtx == ConvertIdle /\ ReadIdle /\ CtxInit
NextCtx == CallCheckIsMaxContext
SpecCtx == InitCtx /\ [][NextCtx]_vars

(* ============================ the properties =========================== *)
\* the half-open range [span.start, span.start + span.length)
SpanRange(span) == span.start..(span.start + span.length - 1)
\* the pieces some span of the list covers
Covered(spans) == UNION {SpanRange(spans[i]) : i \in 1..Len(spans)}
\* the while loop of the current example is over
WindowDone == pc = "spans"
\* the Python indices of the spans that hold the position
Covering(spans, position) ==
  {i \in 0..(Len(spans) - 1) : position \in SpanRange(spans[i + 1])}

\* C1: when the sliding window of a document of N pieces is done, with
\* max_tokens_for_doc >= 1 and doc_stride >= 1, the union of the spans' ranges
\* [start, start + length) is exactly [0, N).
C1_Coverage ==
  (WindowDone /\ max_tokens_for_doc >= 1 /\ doc_stride >= 1)
    => Covered(doc_spans) = 0..(Len(all_doc_tokens) - 1)

\* C1 happens: a window of several spans is done, with a stride longer than
\* the spans
C1_Witness ==
  /\ WindowDone
  /\ max_tokens_for_doc >= 1
  /\ doc_stride > max_tokens_for_doc
  /\ Len(doc_spans) >= 3

\* C2: for the spans the sliding window made, every piece that two or more
\* spans hold is the max-context piece of exactly one span.
C2_MaxContextUnique ==
  WindowDone =>
    \A position \in 0..(Len(all_doc_tokens) - 1) :
      Cardinality(Covering(doc_spans, position)) >= 2 =>
        Cardinality({i \in 0..(Len(doc_spans) - 1) :
                       CheckIsMaxContext(doc_spans, i, position)}) = 1

\* C2 happens: a piece is held by two spans that score the same
C2_Witness ==
  /\ WindowDone
  /\ \E position \in 0..(Len(all_doc_tokens) - 1) :
       \E i, j \in Covering(doc_spans, position) :
         /\ i # j
         /\ Score(doc_spans[i + 1], position) = Score(doc_spans[j + 1], position)
         /\ \A k \in Covering(doc_spans, position) :
              Score(doc_spans[k + 1], position) <= Score(doc_spans[i + 1], position)

\* the features made for the example with the given index
FeaturesOf(index) ==
  {k \in 1..Len(features) : features[k].example_index = index}

\* C4, as stated: the sliding window leaves at least one span for every
\* example, whatever the length of its document, so every example that has
\* been converted has at least one feature.
C4_AlwaysASpan ==
  /\ WindowDone => Len(doc_spans) >= 1
  /\ (pc = "example" /\ example_index >= 1) => FeaturesOf(example_index - 1) # {}

\* C4, amended: the sliding window leaves at least one span exactly when the
\* document has at least one piece, and an example that has been converted
\* has a feature exactly when its document has at least one piece.
C4_SpanIffPieces ==
  /\ WindowDone => (Len(doc_spans) >= 1 <=> Len(all_doc_tokens) >= 1)
  /\ (pc = "example" /\ example_index >= 1)
       => (FeaturesOf(example_index - 1) # {} <=> Len(all_doc_tokens) >= 1)

\* C4 happens: an example of a single piece has been converted
C4_Witness ==
  /\ pc = "example"
  /\ example_index >= 1
  /\ Len(all_doc_tokens) = 1
  /\ FeaturesOf(example_index - 1) # {}

\* the pieces span i and the next one share: the end of the one minus the
\* start of the other
Overlap(spans, i) == (spans[i].start + spans[i].length) - spans[i + 1].start

\* C5, as stated: consecutive spans share at most
\* max_tokens_for_doc - doc_stride pieces, also when the stride is the longer.
C5_OverlapBound ==
  (max_tokens_for_doc >= 1 /\ doc_stride >= 1) =>
    \A i \in 1..(Len(doc_spans) - 1) :
      Overlap(doc_spans, i) <= max_tokens_for_doc - doc_stride

\* C5, amended: consecutive spans share at most max_tokens_for_doc - doc_stride
\* pieces when doc_stride <= max_tokens_for_doc, and none when it is longer.
C5_OverlapBoundCut ==
  (max_tokens_for_doc >= 1 /\ doc_stride >= 1) =>
    \A i \in 1..(Len(doc_spans) - 1) :
      Overlap(doc_spans, i) <=
        (IF doc_stride <= max_tokens_for_doc
         THEN max_tokens_for_doc - doc_stride ELSE 0)

\* C5 happens: two consecutive spans made with a stride longer than the spans
C5_Witness ==
  /\ Len(doc_spans) >= 2
  /\ max_tokens_for_doc >= 1
  /\ doc_stride > max_tokens_for_doc
  /\ Overlap(doc_spans, 1) = 0

\* C3, as stated: every example the reader keeps in training mode for a
\* question that is not impossible has
\* 0 <= start_position <= end_position < len(doc_tokens).
C3_PositionsInRange ==
  \A k \in 1..Len(read_examples) :
    LET example == read_examples[k]
    IN (rd_is_training /\ ~example.is_impossible) =>
         /\ 0 <= example.start_position[1]
         /\ example.start_position[1] <= example.end_position[1]
         /\ example.end_position[1] < Len(example.doc_tokens)

\* the span the direct call asks about
CtxSpan == ctx_doc_spans[ctx_cur_span_index + 1]

\* C6, as stated: _check_is_max_context is true exactly when the span holds
\* the position and its score is the highest score of the spans that hold it,
\* also when two of them score the same.
C6_TrueIffBestScore ==
  ctx_result # None =>
    (ctx_result[1] <=>
       /\ ctx_cur_span_index \in Covering(ctx_doc_spans, ctx_position)
       /\ \A k \in Covering(ctx_doc_spans, ctx_position) :
            Score(ctx_doc_spans[k + 1], ctx_position) <= Score(CtxSpan, ctx_position))

\* C6, amended: _check_is_max_context is true exactly when the span holds the
\* position, its score is the highest score of the spans that hold it, and no
\* span before it in the list holds the position with the same score.
C6_TrueIffFirstBest ==
  ctx_result # None =>
    (ctx_result[1] <=>
       /\ ctx_cur_span_index \in Covering(ctx_doc_spans, ctx_position)
       /\ \A k \in Covering(ctx_doc_spans, ctx_position) :
            /\ Score(ctx_doc_spans[k + 1], ctx_position) <= Score(CtxSpan, ctx_position)
            /\ k < ctx_cur_span_index =>
                 Score(ctx_doc_spans[k + 1], ctx_position) < Score(CtxSpan, ctx_position))

\* C6 happens: the call is true for a span that a later span ties with
C6_Witness ==
  /\ ctx_result = Some(TRUE)
  /\ \E k \in Covering(ctx_doc_spans, ctx_position) :
       /\ k > ctx_cur_span_index
       /\ Score(ctx_doc_spans[k + 1], ctx_position) = Score(CtxSpan, ctx_position)

C8_FixedSize ==
  /\ error # "AssertionError"
  /\ \A k \in 1..Len(features) :
       /\ Len(features[k].input_ids) = max_seq_length
       /\ Len(features[k].input_mask) = max_seq_length
       /\ Len(features[k].segment_ids) = max_seq_length

\* C8 happens: a feature of a question that was cut to max_query_length
\* fills the whole sequence, and a later one is padded
C8_Witness ==
  /\ pc = "spans"
  /\ Len(Tokenize(Example.question_text)) > max_query_length
  /\ \E k \in FeaturesOf(example_index) :
       features[k].input_mask[max_seq_length] = 1
  /\ \E k \in FeaturesOf(example_index) :
       features[k].input_mask[max_seq_length] = 0

\* C9: the k-th feature of the list (k from 0) has unique_id 1000000000 + k,
\* over all examples and spans, and the counter is at 1000000000 + the number
\* of features.
C9_UniqueIds ==
  /\ \A k \in 1..Len(features) : features[k].unique_id = UniqueIdBase + (k - 1)
  /\ unique_id = UniqueIdBase + Len(features)

\* C9 happens: the list holds features of two examples, several of each
C9_Witness ==
  /\ pc = "returned"
  /\ Cardinality(FeaturesOf(0)) >= 2
  /\ Cardinality(FeaturesOf(1)) >= 2

\* C10, as stated: process_set runs to completion and saves one row per
\* feature, in order: ids[k] is the k-th feature's unique_id, y1s[k] and y2s[k]
\* its start_position and end_position minus the index of its first
\* context-segment token.
C10_Materialized ==
  pc \in {"saved", "ps_failed"} =>
    /\ pc = "saved"
    /\ archive # None
    /\ Len(archive[1].ids) = Len(features)
    /\ Len(archive[1].y1s) = Len(features)
    /\ Len(archive[1].y2s) = Len(features)
    /\ \A k \in 1..Len(features) :
         /\ archive[1].ids[k] = features[k].unique_id
         /\ archive[1].y1s[k] =
              features[k].start_position[1] - ContextOffset(features[k].segment_ids)
         /\ archive[1].y2s[k] =
              features[k].end_position[1] - ContextOffset(features[k].segment_ids)

(* -------- the converter, called with any integer configuration -------- *)
\* the strides tried here: negative, zero and positive
WideStrides == (0 - 1)..MaxStride
\* process_set is called with a doc_stride that may be <= 0 and a
\* max_seq_length that may leave no room for the document
WideInit ==
  /\ is_training \in BOOLEAN
  /\ examples \in ExampleLists(is_training)
  /\ max_seq_length \in (SpecialTokens + 1)..MaxSeqLength
  /\ doc_stride \in WideStrides
  /\ max_query_length \in 1..MaxQueryLength
  /\ pc = "example"
  /\ ConvertLocalsInit

InitWide == WideInit /\ ReadIdle /\ CtxIdle
SpecWide == InitWide /\ [][Next]_vars

\* a turn of the while loop that comes back to the loop's test
TurnLoopsBack == pc = "window" /\ pc' = "window"
\* the turn the loop would take from the given offset neither leaves the loop
\* by its test or its break, nor moves the offset forward
TurnStuck(offset) ==
  LET n == Len(all_doc_tokens)
      length == SpanLength(n, offset, max_tokens_for_doc)
  IN /\ WhileCondition(offset, n)
     /\ offset + length # n
     /\ NextOffset(offset, length, doc_stride) <= offset

\* C11, as stated: the while loop of the sliding window exits for every
\* integer configuration.  The loop's test and its break read only
\* start_offset beside values the loop never changes, so it exits exactly
\* when every turn that comes back to the test has moved start_offset
\* forward, towards len(all_doc_tokens).
C11_WindowProgress ==
  [][TurnLoopsBack => start_offset' > start_offset]_vars

\* why one turn without progress is enough: from an offset where the loop is
\* stuck, the offset the turn leads to is an offset where it is stuck again,
\* so the loop appends spans for ever
C11_StuckForEver ==
  (pc = "window" /\ TurnStuck(start_offset)) =>
    TurnStuck(NextOffset(start_offset,
                         SpanLength(Len(all_doc_tokens), start_offset,
                                    max_tokens_for_doc),
                         doc_stride))

\* with doc_stride >= 1 and max_tokens_for_doc >= 1 every turn that comes
\* back has moved start_offset forward
C11_ProgressWhenPositive ==
  [][(TurnLoopsBack /\ doc_stride >= 1 /\ max_tokens_for_doc >= 1)
       => start_offset' > start_offset]_vars

====
